---- MODULE Spec2Model ----
(***************************************************************************)
(* A model of download_podcast_episodes.py: the text sanitizer            *)
(* (format_text, format_title), the OPML walker (parse_opml,               *)
(* parse_outlines), the episode extractor, and main's per-feed pipeline   *)
(* (directory check, creation, listing, reconciliation, chunked download) *)
(* together with the SIGINT handler that sets done_event.                 *)
(*                                                                         *)
(* Strings are sequences of one-character strings.  A raised Python       *)
(* exception that nothing catches ends the run: pc = "crashed" and fault   *)
(* names the exception.                                                    *)
(***************************************************************************)
EXTENDS Integers, Sequences, FiniteSets, TLC

VARIABLES
    pc,                     \* position of main
    fault,                  \* the unhandled exception, "none" while there is none
    exit_code,              \* process status once pc = "exit"
    parent_ok,              \* the directory argument is an existing directory
    warnings,               \* args.warnings
    import_file,            \* "none" (no -i), "ok" (parses), "bad" (opml.parse raises)
    opml_doc,               \* the outline parsed from the import file
    podcasts,               \* the source list, or None
    idx,                    \* position of the for loop of line 265
    feed,                   \* result of parse_rss_url for the current source
    podcast_directory_name, \* local of main, Unbound until first assigned
    podcast_absolute_path,  \* local of main
    existing_files,         \* local of main: the snapshot of map_files
    episodes,               \* local of main: dict url -> filename, in insertion order
    new_episodes,           \* local of main: dict url -> filename, in insertion order
    k,                      \* position of the for loop of line 317
    resp_len,               \* Content-Length of the response of the running download
    resp_pos,               \* bytes of the body that iter_content has yielded
    disk,                   \* podcast directories under the parent: dir -> (filename -> content)
    done_event,             \* the threading.Event set by handle_sigint
    errors,                 \* history: error messages printed for the current source (or the import)
    notices,                \* history: "already downloaded" notices of the last reconciliation
    bytes_after_cancel,     \* history: bytes written by the running download since done_event was set
    snapshots,              \* history: calls of map_files for the current source
    downloaded,             \* history: urls whose download completed for the current source
    ft_in,                  \* format_text run on its own: the argument
    ft_i,                   \* format_text run on its own: position of the outer loop
    ft_text,                \* format_text run on its own: the local text
    ft_pc                   \* format_text run on its own: "idle", "loop", "returned"

mainVars == <<pc, fault, exit_code, parent_ok, warnings, import_file, opml_doc, podcasts,
              idx, feed, podcast_directory_name, podcast_absolute_path, existing_files,
              episodes, new_episodes, k, resp_len, resp_pos, disk, done_event, errors, notices,
              bytes_after_cancel, snapshots, downloaded>>

fmtVars == <<ft_in, ft_i, ft_text, ft_pc>>

vars == <<mainVars, fmtVars>>

\* ---------------------------------------------------------------- bounds

\* Longest argument of format_text when it is run on its own.
MaxLen == 3

\* Largest response body, in half chunks.
MaxBodyUnits == 3

\* ---------------------------------------------------------------- values

\* A missing attribute of an outline element.
None == "None"

\* A name of main that holds a list, or None.
NoneValue == [isNone |-> TRUE, items |-> <<>>]

ListValue(items) == [isNone |-> FALSE, items |-> items]

\* A local of main that holds a string once it is bound.
Unbound == [bound |-> FALSE, value |-> <<>>]

Bound(value) == [bound |-> TRUE, value |-> value]

\* U+2013, the dash of "Fireside Podcast - HeadStuff" (not in the blacklist).
EnDash == "u2013"

Mp3 == <<".", "m", "p", "3">>

\* ---------------------------------------------------------------- format_text

\* The list unaccepted of format_text.
unaccepted_NoBackslash ==
    <<":", "-", "?", "+", "@", ",", "|", "[", "]", "\"", ">", "<", "/", "*", "#", "%", "^">>

unaccepted ==
    <<":", "-", "?", "+", "@", ",", "|", "[", "]", "\"", ">", "<", "/", "\\", "*", "#", "%", "^">>

\* str.replace(element, '') for a one-character element: every occurrence goes.
RECURSIVE Replace(_, _)
Replace(text, element) ==
    IF text = <<>> THEN <<>>
    ELSE IF Head(text) = element THEN Replace(Tail(text), element)
    ELSE <<Head(text)>> \o Replace(Tail(text), element)

\* The inner loop of format_text for one char, from position j of unaccepted.
RECURSIVE InnerLoop(_, _, _)
InnerLoop(text, char, j) ==
    IF j > Len(unaccepted) THEN text
    ELSE IF char = unaccepted[j] THEN InnerLoop(Replace(text, unaccepted[j]), char, j + 1)
    ELSE InnerLoop(text, char, j + 1)

\* The outer loop of format_text: it iterates the string it was given, while
\* text is rebound to the stripped copy.  (Len(stripped) is read so that the
\* copy is computed at every step instead of being carried as a nested
\* unevaluated expression.)
RECURSIVE OuterLoop(_, _, _)
OuterLoop(orig, i, text) ==
    IF i > Len(orig) THEN text
    ELSE LET stripped == InnerLoop(text, orig[i], 1)
         IN  IF Len(stripped) <= Len(text) THEN OuterLoop(orig, i + 1, stripped)
             ELSE text

format_text(text) == OuterLoop(text, 1, text)

\* ---------------------------------------------------------------- format_title

AtLibertyRaw ==
    <<"A", "t", " ", "L", "i", "b", "e", "r", "t", "y", " ", "P", "o", "d", "c", "a", "s", "t",
      " ", " ", "A", "m", "e", "r", "i", "c", "a", "n", " ", "C", "i", "v", "i", "l", " ",
      "L", "i", "b", "e", "r", "t", "i", "e", "s", " ", "U", "n", "i", "o", "n">>

AtLiberty ==
    <<"A", "t", " ", "L", "i", "b", "e", "r", "t", "y", " ", "P", "o", "d", "c", "a", "s", "t",
      " ", "A", "m", "e", "r", "i", "c", "a", "n", " ", "C", "i", "v", "i", "l", " ",
      "L", "i", "b", "e", "r", "t", "i", "e", "s", " ", "U", "n", "i", "o", "n">>

DarknetBonus ==
    <<"D", "a", "r", "k", "n", "e", "t", " ", "D", "i", "a", "r", "i", "e", "s", " ",
      "B", "o", "n", "u", "s", " ", "E", "p", "i", "s", "o", "d", "e", "s">>

Darknet == <<"D", "a", "r", "k", "n", "e", "t", " ", "D", "i", "a", "r", "i", "e", "s">>

FiresideRaw ==
    <<"F", "i", "r", "e", "s", "i", "d", "e", " ", "P", "o", "d", "c", "a", "s", "t", " ",
      EnDash, " ", "H", "e", "a", "d", "S", "t", "u", "f", "f">>

Fireside == <<"F", "i", "r", "e", "s", "i", "d", "e", " ", "P", "o", "d", "c", "a", "s", "t">>

format_title(title) ==
    IF title = AtLibertyRaw THEN AtLiberty
    ELSE IF title = DarknetBonus THEN Darknet
    ELSE IF title = FiresideRaw THEN Fireside
    ELSE title

\* ---------------------------------------------------------------- parse_opml, parse_outlines

\* An outline element of the opml library: its attributes (here xmlUrl, None when
\* the element has no such attribute) and its child outlines, which iterating
\* the element yields.  Reading a missing attribute raises AttributeError.
Leaf(url) == [xmlUrl |-> url, children |-> <<>>]

Group(children) == [xmlUrl |-> None, children |-> children]

\* The result of a call: the value returned, or the exception raised.
Returned(value) == [raised |-> "none", value |-> value]

Raised(exception) == [raised |-> exception, value |-> <<>>]

\* The inner loop of parse_outlines over the children of one top-level outline.
RECURSIVE InnerOutlines(_, _, _)
InnerOutlines(outlines, j, acc) ==
    IF j > Len(outlines) THEN Returned(acc)
    ELSE IF outlines[j].xmlUrl = None THEN Raised("AttributeError")
    ELSE InnerOutlines(outlines, j + 1, Append(acc, outlines[j].xmlUrl))

\* The outer loop of parse_outlines over the top-level outlines.
RECURSIVE OuterOutlines(_, _, _)
OuterOutlines(outline, i, acc) ==
    IF i > Len(outline) THEN Returned(acc)
    ELSE LET r == InnerOutlines(outline[i].children, 1, acc)
         IN  IF r.raised # "none" THEN r
             ELSE OuterOutlines(outline, i + 1, r.value)

parse_outlines(outline) == OuterOutlines(outline, 1, <<>>)

\* The documents an import file may hold.
OpmlDocs ==
    { <<>>,
      <<Group(<<Leaf("u1"), Leaf("u2")>>)>>,
      <<Group(<<Leaf("u1")>>), Group(<<Leaf("u2")>>)>>,
      <<Leaf("u1")>>,
      <<Group(<<Leaf("u1")>>), Leaf("u2")>>,
      <<Group(<<Group(<<Leaf("u1")>>)>>)>>,
      <<Group(<<Leaf("u1"), Group(<<Group(<<Leaf("u2")>>)>>)>>)>> }

default_podcasts ==
    << "https://www.patreon.com/rss/darknetdiaries?auth=AGjk3H83-m6SXXOSdN1Ewt3QuIrvU0i6",
       "https://darknetdiaries.com/feedfree.xml",
       "https://realpython.com/podcasts/rpp/feed",
       "https://feeds.megaphone.fm/darknetdiaries",
       "https://feeds.eff.org/howtofixtheinternet",
       "https://malicious.life/feed/podcast/",
       "https://headstuff.org/tag/fireside-podcast/feed/",
       "https://www.aclu.org/podcast/feed/",
       "https://feeds.soundcloud.com/users/soundcloud:users:40330678/sounds.rss",
       "http://www.2600.com/oth-broadband.xml" >>

\* ---------------------------------------------------------------- feeds

Link(type, href) == [type |-> type, href |-> href]

Entry(title, links) == [title |-> title, links |-> links]

\* "Darknet Diaries: Bonus Episodes": sanitized to DarknetBonus, then overridden.
DarknetBonusRaw ==
    <<"D", "a", "r", "k", "n", "e", "t", " ", "D", "i", "a", "r", "i", "e", "s", ":", " ",
      "B", "o", "n", "u", "s", " ", "E", "p", "i", "s", "o", "d", "e", "s">>

RealPython == <<"R", "P", "P">>

\* What feedparser.parse may return: a FeedParserDict, never None; feed.title
\* is absent for an unreachable or malformed feed (hasTitle = FALSE).
FeedResults ==
    { [hasTitle |-> TRUE, title |-> DarknetBonusRaw,
       entries |-> << Entry(<<"E", "p", ":", "1">>,
                            <<Link("text/html", "h1"), Link("audio/mpeg", "a1")>>),
                      Entry(<<"E", "p", "1">>, <<Link("audio/mpeg", "a2")>>) >>],
      [hasTitle |-> TRUE, title |-> RealPython,
       entries |-> << Entry(<<"E", "p", "1">>, <<Link("audio/mpeg", "a3")>>),
                      Entry(<<"E", "p", "2">>, <<Link("text/html", "h2")>>),
                      Entry(<<"E", "p", "?", "2">>, <<Link("audio/mpeg", "a4")>>) >>],
      [hasTitle |-> FALSE, title |-> <<>>, entries |-> <<>>],
      [hasTitle |-> FALSE, title |-> <<>>,
       entries |-> << Entry(<<"E", "p", "3">>, <<Link("audio/mpeg", "a5")>>) >>] }

NoFeed == [hasTitle |-> FALSE, title |-> <<>>, entries |-> <<>>]

\* ---------------------------------------------------------------- dicts

\* A dict in insertion order: a sequence of <<key, value>> with distinct keys.
\* d[key] = value keeps the place of a key that is already there.
DictSet(d, key, value) ==
    IF \E i \in 1..Len(d) : d[i][1] = key
    THEN [i \in 1..Len(d) |-> IF d[i][1] = key THEN <<key, value>> ELSE d[i]]
    ELSE Append(d, <<key, value>>)

\* ---------------------------------------------------------------- generate_podcast_episode_urls

RECURSIVE LinksLoop(_, _, _, _)
LinksLoop(title, links, j, episode_dict) ==
    IF j > Len(links) THEN episode_dict
    ELSE LinksLoop(title, links, j + 1,
                   IF links[j].type = "audio/mpeg"
                   THEN DictSet(episode_dict, links[j].href, format_text(title) \o Mp3)
                   ELSE episode_dict)

RECURSIVE EntriesLoop(_, _, _)
EntriesLoop(entries, i, episode_dict) ==
    IF i > Len(entries) THEN episode_dict
    ELSE EntriesLoop(entries, i + 1,
                     LinksLoop(entries[i].title, entries[i].links, 1, episode_dict))

generate_podcast_episode_urls(feed_dict) == EntriesLoop(feed_dict.entries, 1, <<>>)

\* ---------------------------------------------------------------- reconciliation (main, 308-314)

\* A plausible slip: the else of line 313 indented under "if warnings".
RECURSIVE NewEpisodesDanglingElse(_, _, _, _)
NewEpisodesDanglingElse(eps, existing, i, acc) ==
    IF i > Len(eps) THEN acc
    ELSE NewEpisodesDanglingElse(eps, existing, i + 1,
                                 IF eps[i][2] \in existing /\ ~warnings
                                 THEN DictSet(acc, eps[i][1], eps[i][2])
                                 ELSE acc)

\* The loop that fills new_episodes.
RECURSIVE NewEpisodes(_, _, _, _)
NewEpisodes(eps, existing, i, acc) ==
    IF i > Len(eps) THEN acc
    ELSE NewEpisodes(eps, existing, i + 1,
                     IF eps[i][2] \in existing THEN acc
                     ELSE DictSet(acc, eps[i][1], eps[i][2]))

\* The notices the same loop prints.
RECURSIVE Notices(_, _, _, _)
Notices(eps, existing, warn, i) ==
    IF i > Len(eps) THEN 0
    ELSE (IF eps[i][2] \in existing /\ warn THEN 1 ELSE 0)
         + Notices(eps, existing, warn, i + 1)

\* ---------------------------------------------------------------- the file system

Ep1Mp3 == <<"E", "p", "1">> \o Mp3

\* A file: the url its bytes came from ("old" for a file of an earlier run) and its size.
OldFile == [url |-> "old", bytes |-> 0]

NoFiles == [f \in {} |-> OldFile]

\* Path.mkdir() on a path that is not there: done, or an OSError.
MkdirOutcomes == {"ok", "NotADirectoryError", "FileNotFoundError", "PermissionError"}

Mkdir(d, path) == [p \in DOMAIN d \cup {path} |-> IF p = path THEN NoFiles ELSE d[p]]

Put(files, name, content) ==
    [f \in DOMAIN files \cup {name} |-> IF f = name THEN content ELSE files[f]]

\* A plausible slip: mode 'ab', which keeps what the file holds.
OpenAppend(files, name, url) ==
    IF name \in DOMAIN files THEN files ELSE Put(files, name, [url |-> url, bytes |-> 0])

\* open(download_path, 'wb'): the file is created, or truncated.
OpenWB(files, name, url) == Put(files, name, [url |-> url, bytes |-> 0])

\* The podcast directories the parent may hold when the run starts.
DirStates == {"absent", "ep1"}

FilesOf(st) == IF st = "ep1" THEN Put(NoFiles, Ep1Mp3, OldFile) ELSE NoFiles

InitDisks ==
    { [p \in {q \in {Darknet, RealPython} :
                 (IF q = Darknet THEN s1 ELSE s2) # "absent"}
          |-> FilesOf(IF p = Darknet THEN s1 ELSE s2)] : s1 \in DirStates, s2 \in DirStates }

\* ---------------------------------------------------------------- download_episode

chunk_size == 32768

HalfChunk == chunk_size \div 2

\* What requests.get(url) may give: an exception, a response without a
\* Content-Length header, or a response with the header and a body.
Responses ==
    {[kind |-> "ConnectionError", len |-> 0], [kind |-> "no_length", len |-> 0]}
    \cup {[kind |-> "ok", len |-> MaxBodyUnits * HalfChunk]}

Min(a, b) == IF a < b THEN a ELSE b

\* ---------------------------------------------------------------- main

FmtIdle == ft_in = <<>> /\ ft_i = 0 /\ ft_text = <<>> /\ ft_pc = "idle"

Init ==
    /\ pc = "start"
    /\ fault = "none"
    /\ exit_code = -1
    /\ parent_ok \in BOOLEAN
    /\ warnings \in BOOLEAN
    /\ import_file \in {"none", "ok", "bad"}
    /\ opml_doc \in (IF import_file = "ok" THEN OpmlDocs ELSE {<<>>})
    /\ podcasts = NoneValue
    /\ idx = 1
    /\ feed = NoFeed
    /\ podcast_directory_name = Unbound
    /\ podcast_absolute_path = <<>>
    /\ existing_files = {}
    /\ episodes = <<>>
    /\ new_episodes = <<>>
    /\ k = 1
    /\ resp_len = 0
    /\ resp_pos = 0
    /\ disk \in InitDisks
    /\ done_event = FALSE
    /\ errors = 0
    /\ notices = 0
    /\ bytes_after_cancel = 0
    /\ snapshots = 0
    /\ downloaded = <<>>
    /\ FmtIdle

inputs == <<parent_ok, warnings, import_file, opml_doc>>

locals == <<podcast_directory_name, podcast_absolute_path, existing_files, episodes,
            new_episodes, k>>

response == <<resp_len, resp_pos>>

history == <<errors, notices, bytes_after_cancel, snapshots, downloaded>>

\* An exception that nothing catches ends the run.
Crash(exception) ==
    /\ pc' = "crashed"
    /\ fault' = exception
    /\ UNCHANGED <<exit_code, inputs, podcasts, idx, feed, locals, response, disk,
                   done_event, history, fmtVars>>

\* handle_sigint, whenever the signal arrives.
HandleSigint ==
    /\ pc \notin {"idle", "exit", "crashed"}
    /\ ~done_event
    /\ done_event' = TRUE
    /\ UNCHANGED <<pc, fault, exit_code, inputs, podcasts, idx, feed, locals, response,
                   disk, history, fmtVars>>

\* main, 249-254: check_directory(parent_directory).
CheckArgs ==
    /\ pc = "start"
    /\ IF parent_ok
       THEN pc' = "resolve" /\ UNCHANGED exit_code
       ELSE pc' = "exit" /\ exit_code' = 1
    /\ UNCHANGED <<fault, inputs, podcasts, idx, feed, locals, response, disk,
                   done_event, history, fmtVars>>

\* main, 257-262, with parse_opml.
ResolveSources ==
    /\ pc = "resolve"
    /\ IF import_file = "none"
       THEN /\ podcasts' = ListValue(default_podcasts)
            /\ pc' = "loop"
            /\ UNCHANGED <<fault, errors>>
       ELSE IF import_file = "bad"
       THEN /\ podcasts' = NoneValue
            /\ errors' = errors + 1
            /\ pc' = "loop"
            /\ UNCHANGED fault
       ELSE LET r == parse_outlines(opml_doc)
            IN  IF r.raised # "none"
                THEN pc' = "crashed" /\ fault' = r.raised /\ UNCHANGED <<podcasts, errors>>
                ELSE /\ podcasts' = ListValue(r.value)
                     /\ pc' = "loop"
                     /\ UNCHANGED <<fault, errors>>
    /\ UNCHANGED <<exit_code, inputs, idx, feed, locals, response, disk, done_event,
                   notices, bytes_after_cancel, snapshots, downloaded, fmtVars>>

\* main, 265: iterating None raises TypeError.
IterateNone ==
    /\ pc = "loop"
    /\ podcasts.isNone
    /\ Crash("TypeError")

\* main, 265 with the list exhausted: main returns and the process ends.
EndOfList ==
    /\ pc = "loop"
    /\ ~podcasts.isNone
    /\ idx > Len(podcasts.items)
    /\ pc' = "exit"
    /\ exit_code' = 0
    /\ UNCHANGED <<fault, inputs, podcasts, idx, feed, locals, response, disk,
                   done_event, history, fmtVars>>

\* main, 265-280: parse_rss_url and the try block that reads feed['feed']['title'].
FetchFeed ==
    /\ pc = "loop"
    /\ ~podcasts.isNone
    /\ idx <= Len(podcasts.items)
    /\ \E f \in FeedResults :
          /\ feed' = f
          /\ IF f.hasTitle
             THEN podcast_directory_name' = Bound(f.title) /\ errors' = 0
             ELSE podcast_directory_name' = podcast_directory_name /\ errors' = 1
    /\ snapshots' = 0
    /\ pc' = "derive"
    /\ UNCHANGED <<fault, exit_code, inputs, podcasts, idx, podcast_absolute_path,
                   existing_files, episodes, new_episodes, k, response, disk, done_event,
                   notices, bytes_after_cancel, downloaded, fmtVars>>

\* main, 283: reading podcast_directory_name before any assignment to it.
DeriveUnbound ==
    /\ pc = "derive"
    /\ ~podcast_directory_name.bound
    /\ Crash("UnboundLocalError")

\* main, 283-294: the directory name, the path, check_directory.
DerivePath ==
    /\ pc = "derive"
    /\ podcast_directory_name.bound
    /\ podcast_absolute_path' = format_title(format_text(podcast_directory_name.value))
    /\ pc' = IF podcast_absolute_path' \in DOMAIN disk THEN "list" ELSE "mkdir"
    /\ UNCHANGED <<fault, exit_code, inputs, podcasts, idx, feed, podcast_directory_name,
                   existing_files, episodes, new_episodes, k, response, disk, done_event,
                   history, fmtVars>>

\* main, 298-299, with make_directory: two OSErrors are caught and reported.
MakeDirectory ==
    /\ pc = "mkdir"
    /\ \E outcome \in MkdirOutcomes :
          IF outcome = "ok"
          THEN /\ disk' = Mkdir(disk, podcast_absolute_path)
               /\ pc' = "list"
               /\ UNCHANGED <<fault, errors>>
          ELSE IF outcome \in {"NotADirectoryError", "FileNotFoundError"}
          THEN /\ errors' = errors + 1
               /\ pc' = "list"
               /\ UNCHANGED <<fault, disk>>
          ELSE pc' = "crashed" /\ fault' = outcome /\ UNCHANGED <<disk, errors>>
    /\ UNCHANGED <<exit_code, inputs, podcasts, idx, feed, locals, response, done_event,
                   notices, bytes_after_cancel, snapshots, downloaded, fmtVars>>

\* main, 302, with map_files: iterdir() of a directory that is not there raises.
MapFilesAbsent ==
    /\ pc = "list"
    /\ podcast_absolute_path \notin DOMAIN disk
    /\ Crash("FileNotFoundError")

\* main, 302, with map_files.
MapFiles ==
    /\ pc = "list"
    /\ podcast_absolute_path \in DOMAIN disk
    /\ existing_files' = DOMAIN disk[podcast_absolute_path]
    /\ snapshots' = snapshots + 1
    /\ pc' = "reconcile"
    /\ UNCHANGED <<fault, exit_code, inputs, podcasts, idx, feed, podcast_directory_name,
                   podcast_absolute_path, episodes, new_episodes, k, response, disk,
                   done_event, errors, notices, bytes_after_cancel, downloaded,
                   fmtVars>>

\* main, 305-314.
Reconcile ==
    /\ pc = "reconcile"
    /\ episodes' = generate_podcast_episode_urls(feed)
    /\ new_episodes' = NewEpisodes(episodes', existing_files, 1, <<>>)
    /\ notices' = Notices(episodes', existing_files, warnings, 1)
    /\ k' = 1
    /\ downloaded' = <<>>
    /\ pc' = "episode"
    /\ UNCHANGED <<fault, exit_code, inputs, podcasts, idx, feed, podcast_directory_name,
                   podcast_absolute_path, existing_files, response, disk, done_event,
                   errors, bytes_after_cancel, snapshots, fmtVars>>

\* main, 317 with new_episodes exhausted: on to the next source.
NextSource ==
    /\ pc = "episode"
    /\ k > Len(new_episodes)
    /\ idx' = idx + 1
    /\ pc' = "loop"
    /\ UNCHANGED <<fault, exit_code, inputs, podcasts, feed, locals, response, disk,
                   done_event, history, fmtVars>>

\* download_episode, 162-164: requests.get raises, or the header is missing.
DownloadFails ==
    /\ pc = "episode"
    /\ k <= Len(new_episodes)
    /\ \E r \in Responses :
          /\ r.kind # "ok"
          /\ Crash(IF r.kind = "no_length" THEN "KeyError" ELSE r.kind)

\* main, 317-322 and download_episode, 160-167: the response, then the file is opened.
StartDownload ==
    /\ pc = "episode"
    /\ k <= Len(new_episodes)
    /\ \E r \in Responses :
          /\ r.kind = "ok"
          /\ resp_len' = r.len
    /\ resp_pos' = 0
    /\ disk' = [disk EXCEPT ![podcast_absolute_path] =
                    OpenWB(@, new_episodes[k][2], new_episodes[k][1])]
    /\ bytes_after_cancel' = 0
    /\ pc' = "chunks"
    /\ UNCHANGED <<fault, exit_code, inputs, podcasts, idx, feed, locals, done_event,
                   errors, notices, snapshots, downloaded, fmtVars>>

\* download_episode, 169-171: one chunk of iter_content is written.
WriteChunk ==
    /\ pc = "chunks"
    /\ resp_pos < resp_len
    /\ LET n == Min(chunk_size, resp_len - resp_pos)
       IN  /\ resp_pos' = resp_pos + n
           /\ disk' = [disk EXCEPT ![podcast_absolute_path][new_episodes[k][2]].bytes = @ + n]
           /\ bytes_after_cancel' = IF done_event THEN bytes_after_cancel + n
                                    ELSE bytes_after_cancel
    /\ UNCHANGED <<pc, fault, exit_code, inputs, podcasts, idx, feed, locals, resp_len,
                   done_event, errors, notices, snapshots, downloaded, fmtVars>>

\* download_episode, 167-171: the body is exhausted, the file is closed.
FinishDownload ==
    /\ pc = "chunks"
    /\ resp_pos = resp_len
    /\ downloaded' = Append(downloaded, <<new_episodes[k][1], resp_len>>)
    /\ k' = k + 1
    /\ pc' = "episode"
    /\ UNCHANGED <<fault, exit_code, inputs, podcasts, idx, feed, podcast_directory_name,
                   podcast_absolute_path, existing_files, episodes, new_episodes, response,
                   disk, done_event, errors, notices, bytes_after_cancel, snapshots, fmtVars>>

Next ==
    \/ HandleSigint
    \/ CheckArgs
    \/ ResolveSources
    \/ IterateNone
    \/ EndOfList
    \/ FetchFeed
    \/ DeriveUnbound
    \/ DerivePath
    \/ MakeDirectory
    \/ MapFilesAbsent
    \/ MapFiles
    \/ Reconcile
    \/ NextSource
    \/ DownloadFails
    \/ StartDownload
    \/ WriteChunk
    \/ FinishDownload

Spec == Init /\ [][Next]_vars

\* ---------------------------------------------------------------- format_text on its own

\* The characters an argument of format_text is drawn from: the ones section
\* 4.1 lists for removal, a letter and a space.
Blacklist ==
    {":", "-", "?", "+", "@", ",", "|", "[", "]", "\"", ">", "<", "/", "\\", "*", "#", "%", "^"}

Alphabet == Blacklist \cup {"a", " "}

RECURSIVE Strings(_)
Strings(n) ==
    IF n = 0 THEN {<<>>}
    ELSE LET shorter == Strings(n - 1)
         IN  shorter \cup {Append(t, c) : t \in {u \in shorter : Len(u) = n - 1}, c \in Alphabet}

MainIdle ==
    /\ pc = "idle"
    /\ fault = "none"
    /\ exit_code = -1
    /\ parent_ok = TRUE
    /\ warnings = FALSE
    /\ import_file = "none"
    /\ opml_doc = <<>>
    /\ podcasts = NoneValue
    /\ idx = 1
    /\ feed = NoFeed
    /\ podcast_directory_name = Unbound
    /\ podcast_absolute_path = <<>>
    /\ existing_files = {}
    /\ episodes = <<>>
    /\ new_episodes = <<>>
    /\ k = 1
    /\ resp_len = 0
    /\ resp_pos = 0
    /\ disk = <<>>
    /\ done_event = FALSE
    /\ errors = 0
    /\ notices = 0
    /\ bytes_after_cancel = 0
    /\ snapshots = 0
    /\ downloaded = <<>>

\* format_text is called with some string.
InitFmt ==
    /\ MainIdle
    /\ ft_in \in Strings(MaxLen)
    /\ ft_i = 1
    /\ ft_text = ft_in
    /\ ft_pc = "loop"

\* format_text, 99-102: the body of the outer loop for the next char.
FmtChar ==
    /\ ft_pc = "loop"
    /\ ft_i <= Len(ft_in)
    /\ ft_text' = InnerLoop(ft_text, ft_in[ft_i], 1)
    /\ ft_i' = ft_i + 1
    /\ UNCHANGED <<ft_in, ft_pc, mainVars>>

\* format_text, 104.
FmtReturn ==
    /\ ft_pc = "loop"
    /\ ft_i > Len(ft_in)
    /\ ft_pc' = "returned"
    /\ UNCHANGED <<ft_in, ft_i, ft_text, mainVars>>

NextFmt == FmtChar \/ FmtReturn

SpecFmt == InitFmt /\ [][NextFmt]_vars

\* ---------------------------------------------------------------- C9

RECURSIVE Kept(_)
Kept(text) ==
    IF text = <<>> THEN <<>>
    ELSE IF Head(text) \in Blacklist THEN Kept(Tail(text))
    ELSE <<Head(text)>> \o Kept(Tail(text))

\* C9: format_text returns its argument with every occurrence of every
\* blacklisted character removed and the other characters in their order: the
\* result holds no blacklisted character, and its length is the argument's
\* less the number of blacklisted characters in the argument.
C9_Sanitize ==
    ft_pc = "returned" =>
        /\ \A i \in 1..Len(ft_text) : ft_text[i] \notin Blacklist
        /\ Len(ft_text)
             = Len(ft_in) - Cardinality({i \in 1..Len(ft_in) : ft_in[i] \in Blacklist})
        /\ ft_text = Kept(ft_in)
        /\ format_text(ft_in) = ft_text

\* A blacklisted character occurs twice, around a kept one, and all is returned.
C9_Witness ==
    /\ ft_pc = "returned"
    /\ Len(ft_in) = 3
    /\ ft_in[1] = "\\"
    /\ ft_in[2] = "a"
    /\ ft_in[3] = "\\"
    /\ ft_text = <<"a">>

\* ---------------------------------------------------------------- C1

\* C1: once done_event is set, the running download writes at most one more
\* chunk (at most chunk_size bytes) to its file.
C1_StopsWithinOneChunk == done_event => bytes_after_cancel <= chunk_size

\* ---------------------------------------------------------------- C2

\* C2: a source whose feed has no title is reported and skipped: main neither
\* creates nor lists a directory nor downloads for it, and does not fault on it.
C2_UntitledFeedSkipped ==
    ~feed.hasTitle =>
        /\ pc \notin {"mkdir", "list", "reconcile", "episode", "chunks"}
        /\ fault # "UnboundLocalError"

\* ---------------------------------------------------------------- C3

\* C3: a download that fails with a transport error (no Content-Length header,
\* connection failure) is reported for that episode and does not end the run.
C3_TransportErrorContained == fault \notin {"KeyError", "ConnectionError"}

\* ---------------------------------------------------------------- C4

\* C4: when creating the podcast directory fails, listing its files does not
\* end the run (FileNotFoundError is the fault of iterdir() on the absent
\* directory; mkdir's own FileNotFoundError is caught by make_directory).
C4_FailedCreationContained == fault # "FileNotFoundError"

\* ---------------------------------------------------------------- C5

\* C5: with an import file that fails to parse, the run reaches its normal end
\* without an unhandled fault.
C5_BadImportIsNoOp == import_file = "bad" => pc # "crashed"

\* ---------------------------------------------------------------- C6

\* C6: every file written is written under the directory derived from the title
\* of the feed its episode belongs to.
C6_FileUnderOwnFeed ==
    pc = "chunks" =>
        /\ feed.hasTitle
        /\ podcast_absolute_path = format_title(format_text(feed.title))

\* ---------------------------------------------------------------- C7

\* The positions of episodes whose filename is not in the snapshot.
NotListed == {i \in 1..Len(episodes) : episodes[i][2] \notin existing_files}

\* C7: new_episodes holds exactly the (url, filename) pairs of episodes whose
\* filename is not in existing_files, in their order; no download runs for a
\* filename of the snapshot; one notice is printed per skipped pair when
\* warnings is set, and none when it is not.
C7_ExactDifference ==
    pc \in {"episode", "chunks"} =>
        /\ Len(new_episodes) = Cardinality(NotListed)
        /\ \A i \in NotListed :
              new_episodes[Cardinality({j \in NotListed : j <= i})] = episodes[i]
        /\ notices = IF warnings THEN Len(episodes) - Cardinality(NotListed) ELSE 0
        /\ pc = "chunks" => new_episodes[k][2] \notin existing_files

\* One episode of a feed is on disk and skipped with a notice, the other is new.
C7_Witness ==
    /\ pc = "chunks"
    /\ warnings
    /\ Len(episodes) = 2
    /\ episodes[1][2] \in existing_files
    /\ new_episodes = <<episodes[2]>>
    /\ notices = 1

\* ---------------------------------------------------------------- C8

\* The xmlUrl of every outline without children, depth first.
RECURSIVE LeafUrls(_)
LeafUrls(nodes) ==
    IF Len(nodes) = 0 THEN <<>>
    ELSE (IF Len(Head(nodes).children) = 0 THEN <<Head(nodes).xmlUrl>>
          ELSE LeafUrls(Head(nodes).children))
         \o LeafUrls(Tail(nodes))

\* C8: with an import file that parses, the source list is the xmlUrl of every
\* leaf outline of the document, depth first, whatever the nesting.
C8_AllLeavesCollected ==
    (import_file = "ok" /\ pc \notin {"start", "resolve"}) =>
        /\ ~podcasts.isNone
        /\ podcasts.items = LeafUrls(opml_doc)

\* ---------------------------------------------------------------- C10

\* The last of the first n new episodes that has the filename of the j-th.
LastWithName(j, n) ==
    CHOOSE m \in j..n :
        /\ new_episodes[m][2] = new_episodes[j][2]
        /\ \A m2 \in (m + 1)..n : new_episodes[m2][2] # new_episodes[j][2]

\* C10: map_files runs once per source, before its first download, and the
\* snapshot is not taken again while the episodes download: every episode whose
\* filename is not in the snapshot is downloaded, in order, also when two of
\* them have one filename, and the file then holds what the later one wrote.
C10_SnapshotOnce ==
    pc \in {"episode", "chunks"} =>
        /\ snapshots = 1
        /\ existing_files \subseteq DOMAIN disk[podcast_absolute_path]
        /\ Len(downloaded) = k - 1
        /\ \A j \in 1..(k - 1) : downloaded[j][1] = new_episodes[j][1]
        /\ pc = "episode" =>
              \A j \in 1..(k - 1) :
                  disk[podcast_absolute_path][new_episodes[j][2]]
                    = [url   |-> new_episodes[LastWithName(j, k - 1)][1],
                       bytes |-> downloaded[LastWithName(j, k - 1)][2]]
        /\ (pc = "episode" /\ k > Len(new_episodes)) =>
              \A i \in NotListed : \E j \in 1..Len(downloaded) :
                  downloaded[j][1] = episodes[i][1]

\* Two urls of one feed had one filename, both were downloaded, and the file
\* holds the later one's bytes.
C10_Witness ==
    /\ pc = "episode"
    /\ k = 3
    /\ Len(new_episodes) = 2
    /\ new_episodes[1][2] = new_episodes[2][2]
    /\ new_episodes[1][1] # new_episodes[2][1]
    /\ disk[podcast_absolute_path][new_episodes[2][2]].url = new_episodes[2][1]
    /\ disk[podcast_absolute_path][new_episodes[2][2]].bytes > 0

====
